---- MODULE Spec2Model ----
(***************************************************************************)
(* Model of runtime/mercury_conf_param.h, lines 342-847: the conditional   *)
(* definitions that turn the macros given on the compiler command line and *)
(* the compiler's predefined macros into the derived configuration.        *)
(*                                                                         *)
(* The state is the preprocessor's macro table while it reads the header.  *)
(* A macro is modelled by whether it is defined: every test in this part   *)
(* of the header is #ifdef / #ifndef / defined(), except                   *)
(* "#if MR_DEBUG_AGC_ALL", which tests the value; a macro requested with   *)
(* -DNAME has the value 1, so there the two tests agree.                   *)
(* Each conditional group of the header is one step, taken in file order.  *)
(* An #error directive ends the translation: the steps after it are not    *)
(* taken.                                                                  *)
(***************************************************************************)
EXTENDS Integers, FiniteSets, Sequences, TLC

VARIABLES
    initial,    \* the macros given on the command line (-D)
    platform,   \* the macros predefined by the compiler for the target
    defs,       \* the macro table: the set of names currently defined
    pc,         \* the conditional group the preprocessor reads next
    err         \* the #error directive reached, or NoError

vars == <<initial, platform, defs, pc, err>>

(***************************************************************************)
(* Bounds                                                                  *)
(***************************************************************************)
\* At most this many macros are defined before the header is read
\* (command line and compiler-predefined together).
MaxRequested == 3

(***************************************************************************)
(* The names                                                               *)
(***************************************************************************)
\* Compiler-predefined macros the header tests in lines 342-847.
PlatformFacts == {"__pic__", "__PIC__", "__CYGWIN__", "_WIN32"}

\* The macros that may be defined before the header is read: every macro that
\* a test in lines 342-847 reads, and MR_CHECK_DU_EQ; the compiler-predefined
\* ones last.
Inputs ==
    << "MR_STACK_TRACE", "MR_EXEC_TRACE", "MR_DEEP_PROFILING",
       "MR_HIGHLEVEL_CODE", "MR_LOWLEVEL_DEBUG", "MR_DEBUG_DD_BACK_END",
       "MR_DEBUG_GOTOS", "MR_DEBUG_LABEL_NAMES", "MR_LOWLEVEL_ADDR_DEBUG",
       "MR_DEBUG_LVAL_REP", "MR_DEBUG_AGC_ALL", "MR_DEBUG_AGC_SCHEDULING",
       "MR_RECORD_TERM_SIZES", "MR_THREAD_SAFE", "MR_TRACE_HISTOGRAM",
       "MR_TYPE_CTOR_STATS", "MR_TABLE_STATISTICS", "MR_STACK_FRAME_STATS",
       "MR_USE_MINIMAL_MODEL_STACK_COPY", "MR_USE_MINIMAL_MODEL_OWN_STACKS",
       "MR_CONSERVATIVE_GC", "MR_MINIMAL_MODEL_DEBUG", "MR_PIC", "MR_PIC_REG",
       "MR_DEEP_PROFILING_PERF_TEST", "MR_DEEP_PROFILING_PORT_COUNTS",
       "MR_DEEP_PROFILING_TIMING", "MR_DEEP_PROFILING_CALL_SEQ",
       "MR_DEEP_PROFILING_MEMORY", "MR_DISABLE_CHECK_DU_EQ", "MR_CHECK_DU_EQ",
       "MR_BOEHM_GC", "MR_MPS_GC", "MR_NATIVE_GC",
       "MR_MIGHT_RECLAIM_HP_ON_FAILURE", "MR_RECLAIM_HP_ON_FAILURE",
       "MR_STATIC_CODE_ADDRESSES", "MR_USE_GCC_NONLOCAL_GOTOS",
       "MR_USE_ASM_LABELS", "MR_DEEP_PROFILING_LOWLEVEL_DEBUG",
       "MR_TABLE_DEBUG", "MR_DEBUG_RETRY", "MR_BYTECODE_CALLABLE",
       "MR_INSERT_LABELS", "MR_INSERT_ENTRY_LABEL_NAMES",
       "MR_INSERT_INTERNAL_LABEL_NAMES", "MR_MPROF_PROFILE_CALLS",
       "MR_MPROF_PROFILE_TIME", "MR_NEED_INITIALIZATION_AT_START",
       "MR_MAY_NEED_INITIALIZATION", "__pic__", "__PIC__", "__CYGWIN__",
       "_WIN32" >>

\* Macros that may be given on the command line.
RequestableFlags == {Inputs[i] : i \in 1..Len(Inputs)} \ PlatformFacts

\* A choice of at most MaxRequested of the Inputs: pick[j] is the position in
\* Inputs of the j-th macro chosen, 0 for none; the positions increase, so
\* that every set of macros is chosen once.
IsPick(pick) ==
    \A j \in 1..(MaxRequested - 1) : pick[j] = 0 \/ pick[j] < pick[j + 1]

Picked(pick) == {Inputs[pick[j]] : j \in {k \in 1..MaxRequested : pick[k] # 0}}

(***************************************************************************)
(* The outcome of one conditional group                                    *)
(***************************************************************************)
NoError == [line |-> 0, kind |-> "none", names |-> {}]

\* The group was read to its end; d is the macro table after it.
Ok(d) == [defs |-> d, err |-> NoError]

\* The #error directive at the given source line was reached.  kind is the
\* error kind of the directive, names the macros its message names.
Fail(d, line, kind, names) ==
    [defs |-> d, err |-> [line |-> line, kind |-> kind, names |-> names]]

\* #ifdef NAME / #error "... should not be defined on the command line"
Reserved(d, line, name) ==
    Fail(d, line, "ReservedFlagSetExternally", {name})

\* #error "A and B are not supported together" / "A and B both defined"
Conflict(d, line, names) ==
    Fail(d, line, "IncompatibleCombination", names)

\* #error "A requires B"
Requires(d, line, feature, required) ==
    Fail(d, line, "MissingPrerequisite", {feature, required})

(***************************************************************************)
(* The conditional groups, in file order                                   *)
(***************************************************************************)
\* lines 342-347 with the test of MR_DEEP_PROFILING left out of line 345
MR_STACK_TRACE_ExecTraceOnly(d) ==
    IF "MR_STACK_TRACE" \in d
    THEN Reserved(d, 343, "MR_STACK_TRACE")
    ELSE IF "MR_EXEC_TRACE" \in d
         THEN Ok(d \cup {"MR_STACK_TRACE"})
         ELSE Ok(d)

\* lines 342-347
MR_STACK_TRACE(d) ==
    IF "MR_STACK_TRACE" \in d
    THEN Reserved(d, 343, "MR_STACK_TRACE")
    ELSE IF "MR_EXEC_TRACE" \in d \/ "MR_DEEP_PROFILING" \in d
         THEN Ok(d \cup {"MR_STACK_TRACE"})
         ELSE Ok(d)

\* lines 349-368 with the MR_DEBUG_GOTOS check (lines 356-358) left out
HighlevelDebugChecks_NoGotos(d) ==
    IF "MR_HIGHLEVEL_CODE" \notin d THEN Ok(d)
    ELSE IF "MR_LOWLEVEL_DEBUG" \in d
         THEN Conflict(d, 351, {"MR_HIGHLEVEL_CODE", "MR_LOWLEVEL_DEBUG"})
    ELSE IF "MR_DEBUG_DD_BACK_END" \in d
         THEN Conflict(d, 354, {"MR_HIGHLEVEL_CODE", "MR_DEBUG_DD_BACK_END"})
    ELSE IF "MR_DEBUG_LABEL_NAMES" \in d
         THEN Conflict(d, 360, {"MR_HIGHLEVEL_CODE", "MR_DEBUG_LABEL_NAMES"})
    ELSE IF "MR_LOWLEVEL_ADDR_DEBUG" \in d
         THEN Conflict(d, 363, {"MR_HIGHLEVEL_CODE", "MR_LOWLEVEL_ADDR_DEBUG"})
    ELSE IF "MR_DEBUG_LVAL_REP" \in d
         THEN Conflict(d, 366, {"MR_HIGHLEVEL_CODE", "MR_DEBUG_LVAL_REP"})
    ELSE Ok(d)

\* lines 349-368
HighlevelDebugChecks(d) ==
    IF "MR_HIGHLEVEL_CODE" \notin d THEN Ok(d)
    ELSE IF "MR_LOWLEVEL_DEBUG" \in d
         THEN Conflict(d, 351, {"MR_HIGHLEVEL_CODE", "MR_LOWLEVEL_DEBUG"})
    ELSE IF "MR_DEBUG_DD_BACK_END" \in d
         THEN Conflict(d, 354, {"MR_HIGHLEVEL_CODE", "MR_DEBUG_DD_BACK_END"})
    ELSE IF "MR_DEBUG_GOTOS" \in d
         THEN Conflict(d, 357, {"MR_HIGHLEVEL_CODE", "MR_DEBUG_GOTOS"})
    ELSE IF "MR_DEBUG_LABEL_NAMES" \in d
         THEN Conflict(d, 360, {"MR_HIGHLEVEL_CODE", "MR_DEBUG_LABEL_NAMES"})
    ELSE IF "MR_LOWLEVEL_ADDR_DEBUG" \in d
         THEN Conflict(d, 363, {"MR_HIGHLEVEL_CODE", "MR_LOWLEVEL_ADDR_DEBUG"})
    ELSE IF "MR_DEBUG_LVAL_REP" \in d
         THEN Conflict(d, 366, {"MR_HIGHLEVEL_CODE", "MR_DEBUG_LVAL_REP"})
    ELSE Ok(d)

\* lines 370-377
MR_DEBUG_AGC_ALL(d) ==
    IF "MR_DEBUG_AGC_ALL" \in d
    THEN Ok(d \cup {"MR_DEBUG_AGC_SCHEDULING", "MR_DEBUG_AGC_COLLECTION",
                    "MR_DEBUG_AGC_FORWARDING", "MR_DEBUG_AGC_SAVED_HPS",
                    "MR_DEBUG_AGC_PRINT_VARS", "MR_DEBUG_AGC_SMALL_HEAP"})
    ELSE Ok(d)

\* lines 438-449
HighlevelProfilingChecks(d) ==
    IF "MR_HIGHLEVEL_CODE" \notin d THEN Ok(d)
    ELSE IF "MR_DEEP_PROFILING" \in d
         THEN Conflict(d, 444, {"MR_HIGHLEVEL_CODE", "MR_DEEP_PROFILING"})
    ELSE IF "MR_RECORD_TERM_SIZES" \in d
         THEN Conflict(d, 447, {"MR_HIGHLEVEL_CODE", "MR_RECORD_TERM_SIZES"})
    ELSE Ok(d)

\* lines 490-504
ThreadSafeChecks(d) ==
    IF "MR_THREAD_SAFE" \notin d THEN Ok(d)
    ELSE IF "MR_TRACE_HISTOGRAM" \in d
         THEN Conflict(d, 491, {"MR_THREAD_SAFE", "MR_TRACE_HISTOGRAM"})
    ELSE IF "MR_TYPE_CTOR_STATS" \in d
         THEN Conflict(d, 495, {"MR_THREAD_SAFE", "MR_TYPE_CTOR_STATS"})
    ELSE IF "MR_TABLE_STATISTICS" \in d
         THEN Conflict(d, 499, {"MR_THREAD_SAFE", "MR_TABLE_STATISTICS"})
    ELSE IF "MR_STACK_FRAME_STATS" \in d
         THEN Conflict(d, 503, {"MR_THREAD_SAFE", "MR_STACK_FRAME_STATS"})
    ELSE Ok(d)

\* lines 514-520.  The message of line 515 names
\* MR_USE_MINIMAL_MODEL_OWN_STACKS, although its condition tests
\* MR_USE_MINIMAL_MODEL_STACK_COPY.
MinimalModelChecks(d) ==
    IF "MR_USE_MINIMAL_MODEL_STACK_COPY" \in d /\ "MR_CONSERVATIVE_GC" \notin d
    THEN Requires(d, 515, "MR_USE_MINIMAL_MODEL_OWN_STACKS", "MR_CONSERVATIVE_GC")
    ELSE IF "MR_USE_MINIMAL_MODEL_OWN_STACKS" \in d /\ "MR_CONSERVATIVE_GC" \notin d
    THEN Requires(d, 519, "MR_USE_MINIMAL_MODEL_OWN_STACKS", "MR_CONSERVATIVE_GC")
    ELSE Ok(d)

\* lines 529-531
MR_EXEC_TRACE_INFO_IN_CONTEXT(d) ==
    IF "MR_USE_MINIMAL_MODEL_OWN_STACKS" \in d
    THEN Ok(d \cup {"MR_EXEC_TRACE_INFO_IN_CONTEXT"})
    ELSE Ok(d)

\* lines 533-535
MR_TABLE_STATISTICS(d) ==
    IF "MR_MINIMAL_MODEL_DEBUG" \in d
    THEN Ok(d \cup {"MR_TABLE_STATISTICS"})
    ELSE Ok(d)

\* lines 548-550
MR_BOXED_FLOAT(d) ==
    IF "MR_HIGHLEVEL_CODE" \in d
    THEN Ok(d \cup {"MR_BOXED_FLOAT"})
    ELSE Ok(d)

\* lines 556-558
MR_PIC(d) ==
    IF "__pic__" \in d \/ "__PIC__" \in d
    THEN Ok(d \cup {"MR_PIC"})
    ELSE Ok(d)

\* lines 574-579 with the #undef of line 578 naming MR_PIC
MR_PIC_REG_UndefsPic(d) ==
    LET d1 == IF "MR_PIC" \in d THEN d \cup {"MR_PIC_REG"} ELSE d
    IN  IF "__CYGWIN__" \in d1 \/ "_WIN32" \in d1
        THEN Ok(d1 \ {"MR_PIC"})
        ELSE Ok(d1)

\* lines 574-579 with the two groups in the other order: the #undef first
MR_PIC_REG_UndefFirst(d) ==
    LET d1 == IF "__CYGWIN__" \in d \/ "_WIN32" \in d
              THEN d \ {"MR_PIC_REG"}
              ELSE d
    IN  IF "MR_PIC" \in d1 THEN Ok(d1 \cup {"MR_PIC_REG"}) ELSE Ok(d1)

\* lines 574-579: the definition, then the #undef on Windows targets
MR_PIC_REG(d) ==
    LET d1 == IF "MR_PIC" \in d THEN d \cup {"MR_PIC_REG"} ELSE d
    IN  IF "__CYGWIN__" \in d1 \/ "_WIN32" \in d1
        THEN Ok(d1 \ {"MR_PIC_REG"})
        ELSE Ok(d1)

\* lines 582-585
MR_LOWLEVEL_DEBUG(d) ==
    IF "MR_LOWLEVEL_DEBUG" \in d
    THEN Ok(d \cup {"MR_DEBUG_GOTOS", "MR_CHECK_FOR_OVERFLOW"})
    ELSE Ok(d)

\* lines 601-614 without the #else branch
MR_DEEP_PROFILING_NoUndef(d) ==
    IF "MR_DEEP_PROFILING" \in d
    THEN LET d1 == d \cup {"MR_DEEP_PROFILING_PORT_COUNTS"}
         IN  IF "MR_DEEP_PROFILING_PERF_TEST" \notin d1
             THEN Ok(d1 \cup {"MR_DEEP_PROFILING_TIMING",
                              "MR_DEEP_PROFILING_CALL_SEQ",
                              "MR_DEEP_PROFILING_MEMORY"})
             ELSE Ok(d1)
    ELSE Ok(d)

\* lines 601-614
MR_DEEP_PROFILING(d) ==
    IF "MR_DEEP_PROFILING" \in d
    THEN LET d1 == d \cup {"MR_DEEP_PROFILING_PORT_COUNTS"}
         IN  IF "MR_DEEP_PROFILING_PERF_TEST" \notin d1
             THEN Ok(d1 \cup {"MR_DEEP_PROFILING_TIMING",
                              "MR_DEEP_PROFILING_CALL_SEQ",
                              "MR_DEEP_PROFILING_MEMORY"})
             ELSE Ok(d1)
    ELSE Ok(d \ {"MR_DEEP_PROFILING_PORT_COUNTS", "MR_DEEP_PROFILING_TIMING",
                 "MR_DEEP_PROFILING_CALL_SEQ", "MR_DEEP_PROFILING_MEMORY"})

\* lines 616-618 without the condition of line 616
MR_CHECK_DU_EQ_Unconditional(d) ==
    Ok(d \cup {"MR_CHECK_DU_EQ"})

\* lines 616-618
MR_CHECK_DU_EQ(d) ==
    IF "MR_DISABLE_CHECK_DU_EQ" \notin d
    THEN Ok(d \cup {"MR_CHECK_DU_EQ"})
    ELSE Ok(d)

\* lines 640-646 without the #elif branch
MR_CONSERVATIVE_GC_NoDefault(d) ==
    IF "MR_BOEHM_GC" \in d \/ "MR_MPS_GC" \in d
    THEN IF "MR_CONSERVATIVE_GC" \notin d
         THEN Ok(d \cup {"MR_CONSERVATIVE_GC"})
         ELSE Ok(d)
    ELSE Ok(d)

\* lines 640-646
MR_CONSERVATIVE_GC(d) ==
    IF "MR_BOEHM_GC" \in d \/ "MR_MPS_GC" \in d
    THEN IF "MR_CONSERVATIVE_GC" \notin d
         THEN Ok(d \cup {"MR_CONSERVATIVE_GC"})
         ELSE Ok(d)
    ELSE IF "MR_CONSERVATIVE_GC" \in d
         THEN Ok(d \cup {"MR_BOEHM_GC"})
         ELSE Ok(d)

\* lines 657-659
MR_MIGHT_RECLAIM_HP_ON_FAILURE(d) ==
    IF "MR_CONSERVATIVE_GC" \notin d /\ "MR_NATIVE_GC" \notin d
    THEN Ok(d \cup {"MR_MIGHT_RECLAIM_HP_ON_FAILURE"})
    ELSE Ok(d)

\* lines 675-677 left out: reclaiming is an opt-in of the command line only
MR_RECLAIM_HP_ON_FAILURE_OptInOnly(d) ==
    Ok(d)

\* lines 675-677
MR_RECLAIM_HP_ON_FAILURE(d) ==
    IF "MR_MIGHT_RECLAIM_HP_ON_FAILURE" \in d
    THEN Ok(d \cup {"MR_RECLAIM_HP_ON_FAILURE"})
    ELSE Ok(d)

\* lines 680-699 with the MR_CONSERVATIVE_GC check (lines 684-690) left out
ReclaimHpChecks_NoConservative(d) ==
    IF "MR_RECLAIM_HP_ON_FAILURE" \notin d THEN Ok(d)
    ELSE IF "MR_MIGHT_RECLAIM_HP_ON_FAILURE" \notin d
         THEN Conflict(d, 682, {"MR_RECLAIM_HP_ON_FAILURE",
                                "MR_MIGHT_RECLAIM_HP_ON_FAILURE"})
    ELSE IF "MR_NATIVE_GC" \in d
         THEN Conflict(d, 697, {"MR_RECLAIM_HP_ON_FAILURE", "MR_NATIVE_GC"})
    ELSE Ok(d)

\* lines 680-699
ReclaimHpChecks(d) ==
    IF "MR_RECLAIM_HP_ON_FAILURE" \notin d THEN Ok(d)
    ELSE IF "MR_MIGHT_RECLAIM_HP_ON_FAILURE" \notin d
         THEN Conflict(d, 682, {"MR_RECLAIM_HP_ON_FAILURE",
                                "MR_MIGHT_RECLAIM_HP_ON_FAILURE"})
    ELSE IF "MR_CONSERVATIVE_GC" \in d
         THEN Conflict(d, 689, {"MR_RECLAIM_HP_ON_FAILURE", "MR_CONSERVATIVE_GC"})
    ELSE IF "MR_NATIVE_GC" \in d
         THEN Conflict(d, 697, {"MR_RECLAIM_HP_ON_FAILURE", "MR_NATIVE_GC"})
    ELSE Ok(d)

\* lines 706-711
MR_STATIC_CODE_ADDRESSES(d) ==
    IF "MR_STATIC_CODE_ADDRESSES" \in d
    THEN Reserved(d, 707, "MR_STATIC_CODE_ADDRESSES")
    ELSE IF "MR_USE_GCC_NONLOCAL_GOTOS" \notin d \/ "MR_USE_ASM_LABELS" \in d
         THEN Ok(d \cup {"MR_STATIC_CODE_ADDRESSES"})
         ELSE Ok(d)

\* lines 717-719
MR_LL_PARALLEL_CONJ(d) ==
    IF "MR_HIGHLEVEL_CODE" \notin d /\ "MR_THREAD_SAFE" \in d
    THEN Ok(d \cup {"MR_LL_PARALLEL_CONJ"})
    ELSE Ok(d)

\* lines 729-732
MR_DEBUG_LABEL_NAMES(d) ==
    IF \/ "MR_DEEP_PROFILING_LOWLEVEL_DEBUG" \in d
       \/ "MR_TABLE_DEBUG" \in d
       \/ "MR_DEBUG_RETRY" \in d
    THEN Ok(d \cup {"MR_DEBUG_LABEL_NAMES"})
    ELSE Ok(d)

\* lines 748-755 without the check of lines 748-750
MR_INSERT_LABELS_NoReservation(d) ==
    IF \/ "MR_STACK_TRACE" \in d
       \/ "MR_NATIVE_GC" \in d
       \/ "MR_DEBUG_GOTOS" \in d
       \/ "MR_BYTECODE_CALLABLE" \in d
       \/ "MR_DEBUG_LABEL_NAMES" \in d
    THEN Ok(d \cup {"MR_INSERT_LABELS"})
    ELSE Ok(d)

\* lines 748-755
MR_INSERT_LABELS(d) ==
    IF "MR_INSERT_LABELS" \in d
    THEN Reserved(d, 749, "MR_INSERT_LABELS")
    ELSE IF \/ "MR_STACK_TRACE" \in d
            \/ "MR_NATIVE_GC" \in d
            \/ "MR_DEBUG_GOTOS" \in d
            \/ "MR_BYTECODE_CALLABLE" \in d
            \/ "MR_DEBUG_LABEL_NAMES" \in d
         THEN Ok(d \cup {"MR_INSERT_LABELS"})
         ELSE Ok(d)

\* lines 765-771 with a test of MR_NEED_ENTRY_LABEL_ARRAY, which only
\* line 808 defines, added to the condition
MR_INSERT_ENTRY_LABEL_NAMES_TestsLaterMacro(d) ==
    IF "MR_INSERT_ENTRY_LABEL_NAMES" \in d
    THEN Reserved(d, 766, "MR_INSERT_ENTRY_LABEL_NAMES")
    ELSE IF \/ "MR_MPROF_PROFILE_CALLS" \in d
            \/ "MR_DEBUG_GOTOS" \in d
            \/ "MR_DEBUG_AGC_SCHEDULING" \in d
            \/ "MR_DEBUG_LABEL_NAMES" \in d
            \/ "MR_NEED_ENTRY_LABEL_ARRAY" \in d
         THEN Ok(d \cup {"MR_INSERT_ENTRY_LABEL_NAMES"})
         ELSE Ok(d)

\* lines 765-771
MR_INSERT_ENTRY_LABEL_NAMES(d) ==
    IF "MR_INSERT_ENTRY_LABEL_NAMES" \in d
    THEN Reserved(d, 766, "MR_INSERT_ENTRY_LABEL_NAMES")
    ELSE IF \/ "MR_MPROF_PROFILE_CALLS" \in d
            \/ "MR_DEBUG_GOTOS" \in d
            \/ "MR_DEBUG_AGC_SCHEDULING" \in d
            \/ "MR_DEBUG_LABEL_NAMES" \in d
         THEN Ok(d \cup {"MR_INSERT_ENTRY_LABEL_NAMES"})
         ELSE Ok(d)

\* lines 781-787
MR_INSERT_INTERNAL_LABEL_NAMES(d) ==
    IF "MR_INSERT_INTERNAL_LABEL_NAMES" \in d
    THEN Reserved(d, 782, "MR_INSERT_INTERNAL_LABEL_NAMES")
    ELSE IF \/ "MR_DEBUG_GOTOS" \in d
            \/ "MR_DEBUG_AGC_SCHEDULING" \in d
            \/ "MR_DEBUG_LABEL_NAMES" \in d
         THEN Ok(d \cup {"MR_INSERT_INTERNAL_LABEL_NAMES"})
         ELSE Ok(d)

\* lines 806-813
MR_NEED_ENTRY_LABEL_INFO(d) ==
    LET d1 == IF \/ "MR_NATIVE_GC" \in d
                 \/ "MR_DEBUG_GOTOS" \in d
                 \/ "MR_INSERT_ENTRY_LABEL_NAMES" \in d
              THEN d \cup {"MR_NEED_ENTRY_LABEL_ARRAY"}
              ELSE d
    IN  IF "MR_NEED_ENTRY_LABEL_ARRAY" \in d1 \/ "MR_MPROF_PROFILE_CALLS" \in d1
        THEN Ok(d1 \cup {"MR_NEED_ENTRY_LABEL_INFO"})
        ELSE Ok(d1)

\* lines 825-831
MR_NEED_INITIALIZATION_AT_START(d) ==
    IF "MR_NEED_INITIALIZATION_AT_START" \in d
    THEN Reserved(d, 826, "MR_NEED_INITIALIZATION_AT_START")
    ELSE IF \/ "MR_STATIC_CODE_ADDRESSES" \notin d
            \/ "MR_MPROF_PROFILE_CALLS" \in d
            \/ "MR_MPROF_PROFILE_TIME" \in d
            \/ "MR_DEBUG_LABEL_NAMES" \in d
         THEN Ok(d \cup {"MR_NEED_INITIALIZATION_AT_START"})
         ELSE Ok(d)

\* lines 842-847 with the test of MR_INSERT_LABELS left out of line 845
MR_MAY_NEED_INITIALIZATION_StartOnly(d) ==
    IF "MR_MAY_NEED_INITIALIZATION" \in d
    THEN Reserved(d, 843, "MR_MAY_NEED_INITIALIZATION")
    ELSE IF "MR_NEED_INITIALIZATION_AT_START" \in d
         THEN Ok(d \cup {"MR_MAY_NEED_INITIALIZATION"})
         ELSE Ok(d)

\* lines 842-847
MR_MAY_NEED_INITIALIZATION(d) ==
    IF "MR_MAY_NEED_INITIALIZATION" \in d
    THEN Reserved(d, 843, "MR_MAY_NEED_INITIALIZATION")
    ELSE IF \/ "MR_NEED_INITIALIZATION_AT_START" \in d
            \/ "MR_INSERT_LABELS" \in d
         THEN Ok(d \cup {"MR_MAY_NEED_INITIALIZATION"})
         ELSE Ok(d)

(***************************************************************************)
(* The pass over the header                                                *)
(***************************************************************************)
\* The conditional groups in file order.
Groups ==
    << "MR_STACK_TRACE", "HighlevelDebugChecks", "MR_DEBUG_AGC_ALL",
       "HighlevelProfilingChecks", "ThreadSafeChecks", "MinimalModelChecks",
       "MR_EXEC_TRACE_INFO_IN_CONTEXT", "MR_TABLE_STATISTICS",
       "MR_BOXED_FLOAT", "MR_PIC", "MR_PIC_REG", "MR_LOWLEVEL_DEBUG",
       "MR_DEEP_PROFILING", "MR_CHECK_DU_EQ", "MR_CONSERVATIVE_GC",
       "MR_MIGHT_RECLAIM_HP_ON_FAILURE", "MR_RECLAIM_HP_ON_FAILURE",
       "ReclaimHpChecks", "MR_STATIC_CODE_ADDRESSES", "MR_LL_PARALLEL_CONJ",
       "MR_DEBUG_LABEL_NAMES", "MR_INSERT_LABELS",
       "MR_INSERT_ENTRY_LABEL_NAMES", "MR_INSERT_INTERNAL_LABEL_NAMES",
       "MR_NEED_ENTRY_LABEL_INFO", "MR_NEED_INITIALIZATION_AT_START",
       "MR_MAY_NEED_INITIALIZATION" >>

\* What the group named g does to the macro table d.
ApplyGroup(g, d) ==
    CASE g = "MR_STACK_TRACE" -> MR_STACK_TRACE(d)
      [] g = "HighlevelDebugChecks" -> HighlevelDebugChecks(d)
      [] g = "MR_DEBUG_AGC_ALL" -> MR_DEBUG_AGC_ALL(d)
      [] g = "HighlevelProfilingChecks" -> HighlevelProfilingChecks(d)
      [] g = "ThreadSafeChecks" -> ThreadSafeChecks(d)
      [] g = "MinimalModelChecks" -> MinimalModelChecks(d)
      [] g = "MR_EXEC_TRACE_INFO_IN_CONTEXT" -> MR_EXEC_TRACE_INFO_IN_CONTEXT(d)
      [] g = "MR_TABLE_STATISTICS" -> MR_TABLE_STATISTICS(d)
      [] g = "MR_BOXED_FLOAT" -> MR_BOXED_FLOAT(d)
      [] g = "MR_PIC" -> MR_PIC(d)
      [] g = "MR_PIC_REG" -> MR_PIC_REG(d)
      [] g = "MR_LOWLEVEL_DEBUG" -> MR_LOWLEVEL_DEBUG(d)
      [] g = "MR_DEEP_PROFILING" -> MR_DEEP_PROFILING(d)
      [] g = "MR_CHECK_DU_EQ" -> MR_CHECK_DU_EQ(d)
      [] g = "MR_CONSERVATIVE_GC" -> MR_CONSERVATIVE_GC(d)
      [] g = "MR_MIGHT_RECLAIM_HP_ON_FAILURE" -> MR_MIGHT_RECLAIM_HP_ON_FAILURE(d)
      [] g = "MR_RECLAIM_HP_ON_FAILURE" -> MR_RECLAIM_HP_ON_FAILURE(d)
      [] g = "ReclaimHpChecks" -> ReclaimHpChecks(d)
      [] g = "MR_STATIC_CODE_ADDRESSES" -> MR_STATIC_CODE_ADDRESSES(d)
      [] g = "MR_LL_PARALLEL_CONJ" -> MR_LL_PARALLEL_CONJ(d)
      [] g = "MR_DEBUG_LABEL_NAMES" -> MR_DEBUG_LABEL_NAMES(d)
      [] g = "MR_INSERT_LABELS" -> MR_INSERT_LABELS(d)
      [] g = "MR_INSERT_ENTRY_LABEL_NAMES" -> MR_INSERT_ENTRY_LABEL_NAMES(d)
      [] g = "MR_INSERT_INTERNAL_LABEL_NAMES" -> MR_INSERT_INTERNAL_LABEL_NAMES(d)
      [] g = "MR_NEED_ENTRY_LABEL_INFO" -> MR_NEED_ENTRY_LABEL_INFO(d)
      [] g = "MR_NEED_INITIALIZATION_AT_START" -> MR_NEED_INITIALIZATION_AT_START(d)
      [] g = "MR_MAY_NEED_INITIALIZATION" -> MR_MAY_NEED_INITIALIZATION(d)

\* The header read from its i-th group on, starting with macro table d:
\* the first #error reached ends the pass.
RECURSIVE ReadFrom(_, _)
ReadFrom(i, d) ==
    IF i > Len(Groups) THEN Ok(d)
    ELSE LET r == ApplyGroup(Groups[i], d)
         IN  IF r.err # NoError THEN r ELSE ReadFrom(i + 1, r.defs)

\* The whole pass for command-line macros init and predefined macros p.
Resolve(init, p) == ReadFrom(1, init \cup p)

\* The position of group g in the file order.
GroupIndex(g) == CHOOSE i \in 1..Len(Groups) : Groups[i] = g

Init ==
    /\ \E pick \in [1..MaxRequested -> 0..Len(Inputs)] :
          /\ IsPick(pick)
          /\ initial = Picked(pick) \cap RequestableFlags
          /\ platform = Picked(pick) \cap PlatformFacts
          /\ defs = Picked(pick)
    /\ pc = Groups[1]
    /\ err = NoError

\* The preprocessor reads group g and goes on to the next group even after
\* an #error, keeping the first error.
Read_KeepsGoing(g) ==
    /\ pc = g
    /\ LET r == ApplyGroup(g, defs)
           i == GroupIndex(g)
           e == IF err # NoError THEN err ELSE r.err
       IN  /\ defs' = r.defs
           /\ err' = e
           /\ pc' = IF i < Len(Groups) THEN Groups[i + 1]
                    ELSE IF e # NoError THEN "failed" ELSE "done"
    /\ UNCHANGED <<initial, platform>>

\* The preprocessor reads group g: the macro table changes as the group
\* says; an #error ends the pass ("failed"), the end of the last group
\* completes it ("done").
Read(g) ==
    /\ pc = g
    /\ LET r == ApplyGroup(g, defs)
           i == GroupIndex(g)
       IN  /\ defs' = r.defs
           /\ err' = r.err
           /\ pc' = IF r.err # NoError THEN "failed"
                    ELSE IF i = Len(Groups) THEN "done"
                    ELSE Groups[i + 1]
    /\ UNCHANGED <<initial, platform>>

Read_MR_STACK_TRACE == Read("MR_STACK_TRACE")

Read_HighlevelDebugChecks == Read("HighlevelDebugChecks")

Read_MR_DEBUG_AGC_ALL == Read("MR_DEBUG_AGC_ALL")

Read_HighlevelProfilingChecks == Read("HighlevelProfilingChecks")

Read_ThreadSafeChecks == Read("ThreadSafeChecks")

Read_MinimalModelChecks == Read("MinimalModelChecks")

Read_MR_EXEC_TRACE_INFO_IN_CONTEXT == Read("MR_EXEC_TRACE_INFO_IN_CONTEXT")

Read_MR_TABLE_STATISTICS == Read("MR_TABLE_STATISTICS")

Read_MR_BOXED_FLOAT == Read("MR_BOXED_FLOAT")

Read_MR_PIC == Read("MR_PIC")

Read_MR_PIC_REG == Read("MR_PIC_REG")

Read_MR_LOWLEVEL_DEBUG == Read("MR_LOWLEVEL_DEBUG")

Read_MR_DEEP_PROFILING == Read("MR_DEEP_PROFILING")

Read_MR_CHECK_DU_EQ == Read("MR_CHECK_DU_EQ")

Read_MR_CONSERVATIVE_GC == Read("MR_CONSERVATIVE_GC")

Read_MR_MIGHT_RECLAIM_HP_ON_FAILURE == Read("MR_MIGHT_RECLAIM_HP_ON_FAILURE")

Read_MR_RECLAIM_HP_ON_FAILURE == Read("MR_RECLAIM_HP_ON_FAILURE")

Read_ReclaimHpChecks == Read("ReclaimHpChecks")

Read_MR_STATIC_CODE_ADDRESSES == Read("MR_STATIC_CODE_ADDRESSES")

Read_MR_LL_PARALLEL_CONJ == Read("MR_LL_PARALLEL_CONJ")

Read_MR_DEBUG_LABEL_NAMES == Read("MR_DEBUG_LABEL_NAMES")

Read_MR_INSERT_LABELS == Read("MR_INSERT_LABELS")

Read_MR_INSERT_ENTRY_LABEL_NAMES == Read("MR_INSERT_ENTRY_LABEL_NAMES")

Read_MR_INSERT_INTERNAL_LABEL_NAMES == Read("MR_INSERT_INTERNAL_LABEL_NAMES")

Read_MR_NEED_ENTRY_LABEL_INFO == Read("MR_NEED_ENTRY_LABEL_INFO")

Read_MR_NEED_INITIALIZATION_AT_START == Read("MR_NEED_INITIALIZATION_AT_START")

Read_MR_MAY_NEED_INITIALIZATION == Read("MR_MAY_NEED_INITIALIZATION")

Next ==
    \/ Read_MR_STACK_TRACE
    \/ Read_HighlevelDebugChecks
    \/ Read_MR_DEBUG_AGC_ALL
    \/ Read_HighlevelProfilingChecks
    \/ Read_ThreadSafeChecks
    \/ Read_MinimalModelChecks
    \/ Read_MR_EXEC_TRACE_INFO_IN_CONTEXT
    \/ Read_MR_TABLE_STATISTICS
    \/ Read_MR_BOXED_FLOAT
    \/ Read_MR_PIC
    \/ Read_MR_PIC_REG
    \/ Read_MR_LOWLEVEL_DEBUG
    \/ Read_MR_DEEP_PROFILING
    \/ Read_MR_CHECK_DU_EQ
    \/ Read_MR_CONSERVATIVE_GC
    \/ Read_MR_MIGHT_RECLAIM_HP_ON_FAILURE
    \/ Read_MR_RECLAIM_HP_ON_FAILURE
    \/ Read_ReclaimHpChecks
    \/ Read_MR_STATIC_CODE_ADDRESSES
    \/ Read_MR_LL_PARALLEL_CONJ
    \/ Read_MR_DEBUG_LABEL_NAMES
    \/ Read_MR_INSERT_LABELS
    \/ Read_MR_INSERT_ENTRY_LABEL_NAMES
    \/ Read_MR_INSERT_INTERNAL_LABEL_NAMES
    \/ Read_MR_NEED_ENTRY_LABEL_INFO
    \/ Read_MR_NEED_INITIALIZATION_AT_START
    \/ Read_MR_MAY_NEED_INITIALIZATION

Spec == Init /\ [][Next]_vars

(***************************************************************************)
(* Properties                                                              *)
(***************************************************************************)
\* The pass is over: it completed, or an #error ended it.
Finished == pc \in {"done", "failed"}

\* Macros the header derives and rejects when given on the command line.
ReservedFlags ==
    { "MR_STACK_TRACE", "MR_STATIC_CODE_ADDRESSES", "MR_INSERT_LABELS",
      "MR_INSERT_ENTRY_LABEL_NAMES", "MR_INSERT_INTERNAL_LABEL_NAMES",
      "MR_NEED_INITIALIZATION_AT_START", "MR_MAY_NEED_INITIALIZATION" }

\* A resolved configuration taken as a command line: every macro of it that
\* is not compiler-predefined.
AsInitial(d) == d \ PlatformFacts

\* C1 (as stated): idempotence.  Whenever the pass completes, reading the
\* header again with every macro of the result given on the command line and
\* the same predefined macros completes too and gives the same result.
C1_Idempotence ==
    pc = "done" => Resolve(AsInitial(defs), platform) = Ok(defs)

\* C1 (amended): whenever the pass completes, reading the header again with
\* every macro of the result given on the command line fails; with the seven
\* reserved macros left out of that command line, the second pass either
\* gives exactly the same result or stops at the #error of line 360
\* (MR_HIGHLEVEL_CODE with MR_DEBUG_LABEL_NAMES) or of line 499
\* (MR_THREAD_SAFE with MR_TABLE_STATISTICS).
C1_RefeedWithoutReserved ==
    pc = "done" =>
        LET again    == Resolve(AsInitial(defs), platform)
            stripped == Resolve(AsInitial(defs) \ ReservedFlags, platform)
        IN  /\ again.err # NoError
            /\ stripped.err.line \in {0, 360, 499}
            /\ stripped.err = NoError => stripped.defs = defs

\* A completed pass whose result holds derived macros, reserved ones among
\* them, and reproduces itself once the reserved ones are left out.
C1_Witness ==
    /\ pc = "done"
    /\ {"MR_STACK_TRACE", "MR_INSERT_LABELS", "MR_DEBUG_GOTOS"} \subseteq defs
    /\ Resolve(AsInitial(defs) \ ReservedFlags, platform) = Ok(defs)

\* C2: whenever the pass completes, MR_STACK_TRACE is defined iff
\* MR_EXEC_TRACE or MR_DEEP_PROFILING is, in the result and on the command
\* line alike.
C2_StackTraceIff ==
    pc = "done" =>
        /\ "MR_STACK_TRACE" \in defs
              <=> ("MR_EXEC_TRACE" \in defs \/ "MR_DEEP_PROFILING" \in defs)
        /\ "MR_STACK_TRACE" \in defs
              <=> ("MR_EXEC_TRACE" \in initial \/ "MR_DEEP_PROFILING" \in initial)

\* A completed pass that derived MR_STACK_TRACE from MR_DEEP_PROFILING alone.
C2_Witness ==
    /\ pc = "done"
    /\ "MR_DEEP_PROFILING" \in initial
    /\ "MR_EXEC_TRACE" \notin initial
    /\ "MR_STACK_TRACE" \in defs

\* The low-level debugging modes MR_HIGHLEVEL_CODE excludes, in the order
\* the header tests them.
LowlevelDebugModes ==
    << "MR_LOWLEVEL_DEBUG", "MR_DEBUG_DD_BACK_END", "MR_DEBUG_GOTOS",
       "MR_DEBUG_LABEL_NAMES", "MR_LOWLEVEL_ADDR_DEBUG", "MR_DEBUG_LVAL_REP" >>

\* The first of those modes that is in the set s.
FirstDebugMode(s) ==
    LowlevelDebugModes[
        CHOOSE i \in 1..Len(LowlevelDebugModes) :
            /\ LowlevelDebugModes[i] \in s
            /\ \A j \in 1..(i - 1) : LowlevelDebugModes[j] \notin s ]

\* C3 (as stated): every command line with MR_HIGHLEVEL_CODE and one of the
\* six low-level debugging modes fails with IncompatibleCombination naming
\* exactly MR_HIGHLEVEL_CODE and that mode.
C3_ModeExclusivity ==
    Finished =>
        \A i \in 1..Len(LowlevelDebugModes) :
            {"MR_HIGHLEVEL_CODE", LowlevelDebugModes[i]} \subseteq initial
            => /\ pc = "failed"
               /\ err.kind = "IncompatibleCombination"
               /\ err.names = {"MR_HIGHLEVEL_CODE", LowlevelDebugModes[i]}

\* C3 (amended): every command line with MR_HIGHLEVEL_CODE and at least one
\* of the six low-level debugging modes fails; unless MR_STACK_TRACE is on
\* the command line too, the error is IncompatibleCombination naming exactly
\* MR_HIGHLEVEL_CODE and the first requested mode in the order of the header.
C3_FirstModeNamed ==
    ( /\ Finished
      /\ "MR_HIGHLEVEL_CODE" \in initial
      /\ \E i \in 1..Len(LowlevelDebugModes) : LowlevelDebugModes[i] \in initial )
    => /\ pc = "failed"
       /\ "MR_STACK_TRACE" \notin initial
          => /\ err.kind = "IncompatibleCombination"
             /\ err.names = {"MR_HIGHLEVEL_CODE", FirstDebugMode(initial)}

\* The pass stopped at the MR_HIGHLEVEL_CODE / MR_DEBUG_GOTOS #error although
\* a later mode was requested as well.
C3_Witness ==
    /\ pc = "failed"
    /\ {"MR_HIGHLEVEL_CODE", "MR_DEBUG_GOTOS", "MR_DEBUG_LVAL_REP"} \subseteq initial
    /\ err.line = 357

\* The minimal-model variants and the line of the #error that checks each.
MinimalModelVariants ==
    { <<"MR_USE_MINIMAL_MODEL_STACK_COPY", 515>>,
      <<"MR_USE_MINIMAL_MODEL_OWN_STACKS", 519>> }

\* C4: when a minimal-model variant V is requested, MR_CONSERVATIVE_GC is not
\* defined at the check and no earlier #error was reached, the pass fails with
\* MissingPrerequisite naming V and MR_CONSERVATIVE_GC; and no completed pass
\* has V without MR_CONSERVATIVE_GC.
C4_Prerequisite ==
    \A v \in MinimalModelVariants :
        /\ ( /\ Finished
             /\ v[1] \in initial
             /\ "MR_CONSERVATIVE_GC" \notin initial
             /\ (err = NoError \/ err.line >= v[2]) )
           => /\ pc = "failed"
              /\ err.kind = "MissingPrerequisite"
              /\ err.names = {v[1], "MR_CONSERVATIVE_GC"}
        /\ pc = "done" /\ v[1] \in defs => "MR_CONSERVATIVE_GC" \in defs

\* C5: whenever the pass completes, MR_PIC_REG is defined if __pic__ or
\* __PIC__ is predefined and neither __CYGWIN__ nor _WIN32 is, and MR_PIC_REG
\* is undefined if __CYGWIN__ or _WIN32 is predefined.
C5_PicReg ==
    pc = "done" =>
        LET pic     == "__pic__" \in platform \/ "__PIC__" \in platform
            windows == "__CYGWIN__" \in platform \/ "_WIN32" \in platform
        IN  /\ pic /\ ~windows => "MR_PIC_REG" \in defs
            /\ windows => "MR_PIC_REG" \notin defs

\* A completed pass on a Windows target with position-independent code.
C5_Witness ==
    /\ pc = "done"
    /\ "__PIC__" \in platform
    /\ "_WIN32" \in platform
    /\ "MR_PIC" \in defs
    /\ "MR_PIC_REG" \notin defs

\* C6: when MR_RECLAIM_HP_ON_FAILURE is on the command line and the pass gets
\* past the definition of MR_CONSERVATIVE_GC (lines 640-646) with it defined,
\* the pass fails with IncompatibleCombination; and no completed pass has both
\* MR_RECLAIM_HP_ON_FAILURE and MR_CONSERVATIVE_GC.
C6_ReclaimSanity ==
    /\ ( /\ Finished
         /\ "MR_RECLAIM_HP_ON_FAILURE" \in initial
         /\ "MR_CONSERVATIVE_GC" \in defs
         /\ (err = NoError \/ err.line > 646) )
       => /\ pc = "failed"
          /\ err.kind = "IncompatibleCombination"
    /\ pc = "done" =>
          ~ {"MR_RECLAIM_HP_ON_FAILURE", "MR_CONSERVATIVE_GC"} \subseteq defs

\* The pass stopped at the MR_RECLAIM_HP_ON_FAILURE / MR_CONSERVATIVE_GC
\* #error, the category having been derived from MR_MPS_GC.
C6_Witness ==
    /\ pc = "failed"
    /\ "MR_RECLAIM_HP_ON_FAILURE" \in initial
    /\ "MR_MPS_GC" \in initial
    /\ "MR_CONSERVATIVE_GC" \notin initial
    /\ err.line = 689

\* C7: whenever the pass completes, (a) MR_BOEHM_GC or MR_MPS_GC on the
\* command line gives MR_CONSERVATIVE_GC; (b) MR_CONSERVATIVE_GC on the
\* command line with neither gives MR_BOEHM_GC; MR_CONSERVATIVE_GC is defined
\* iff MR_BOEHM_GC or MR_MPS_GC is; and (c) no #error names both MR_BOEHM_GC
\* and MR_MPS_GC, and the two alone complete.
C7_GcNormalization ==
    /\ pc = "done" =>
          /\ ("MR_BOEHM_GC" \in initial \/ "MR_MPS_GC" \in initial)
                => "MR_CONSERVATIVE_GC" \in defs
          /\ ( /\ "MR_CONSERVATIVE_GC" \in initial
               /\ "MR_BOEHM_GC" \notin initial
               /\ "MR_MPS_GC" \notin initial ) => "MR_BOEHM_GC" \in defs
          /\ "MR_CONSERVATIVE_GC" \in defs
                <=> ("MR_BOEHM_GC" \in defs \/ "MR_MPS_GC" \in defs)
    /\ pc = "failed" => ~ {"MR_BOEHM_GC", "MR_MPS_GC"} \subseteq err.names
    /\ Finished /\ initial = {"MR_BOEHM_GC", "MR_MPS_GC"} => pc = "done"

\* A completed pass with both collectors requested and the category derived.
C7_Witness ==
    /\ pc = "done"
    /\ initial = {"MR_BOEHM_GC", "MR_MPS_GC"}
    /\ "MR_CONSERVATIVE_GC" \in defs

\* The deep profiling measurements.
DeepProfilingMeasurements ==
    { "MR_DEEP_PROFILING_PORT_COUNTS", "MR_DEEP_PROFILING_TIMING",
      "MR_DEEP_PROFILING_CALL_SEQ", "MR_DEEP_PROFILING_MEMORY" }

\* C8 (as stated): whenever the pass completes, all four measurements are
\* defined if MR_DEEP_PROFILING is requested and MR_DEEP_PROFILING_PERF_TEST
\* is not, and none of them is defined in every other case.
C8_Bundle ==
    pc = "done" =>
        IF /\ "MR_DEEP_PROFILING" \in initial
           /\ "MR_DEEP_PROFILING_PERF_TEST" \notin initial
        THEN DeepProfilingMeasurements \subseteq defs
        ELSE DeepProfilingMeasurements \cap defs = {}

\* C8 (amended): whenever the pass completes, all four measurements are
\* defined if MR_DEEP_PROFILING is requested and MR_DEEP_PROFILING_PERF_TEST
\* is not; none is defined if MR_DEEP_PROFILING is not requested, whatever
\* the command line gave for them; and if both MR_DEEP_PROFILING and
\* MR_DEEP_PROFILING_PERF_TEST are requested, MR_DEEP_PROFILING_PORT_COUNTS
\* is defined and each of the other three is defined iff the command line
\* gave it.
C8_BundleUnlessPerfTest ==
    pc = "done" =>
        IF "MR_DEEP_PROFILING" \notin initial
        THEN DeepProfilingMeasurements \cap defs = {}
        ELSE IF "MR_DEEP_PROFILING_PERF_TEST" \notin initial
        THEN DeepProfilingMeasurements \subseteq defs
        ELSE DeepProfilingMeasurements \cap defs
                = {"MR_DEEP_PROFILING_PORT_COUNTS"}
                  \cup (DeepProfilingMeasurements \cap initial)

\* A completed pass with deep profiling, the performance test override and
\* one measurement given on the command line.
C8_Witness ==
    /\ pc = "done"
    /\ initial = { "MR_DEEP_PROFILING", "MR_DEEP_PROFILING_PERF_TEST",
                   "MR_DEEP_PROFILING_MEMORY" }
    /\ DeepProfilingMeasurements \cap defs
          = {"MR_DEEP_PROFILING_PORT_COUNTS", "MR_DEEP_PROFILING_MEMORY"}

\* The #error directives whose condition is violated by the macro table s
\* given before the header is read, by source line.  The macros tested by
\* lines 343-519 and by the reservation checks are not defined by any earlier
\* line; lines 682-697 test macros that lines 640-677 derive.
Violations(s) ==
    LET hl      == "MR_HIGHLEVEL_CODE" \in s
        ts      == "MR_THREAD_SAFE" \in s
        cons    == \/ "MR_CONSERVATIVE_GC" \in s
                   \/ "MR_BOEHM_GC" \in s
                   \/ "MR_MPS_GC" \in s
        native  == "MR_NATIVE_GC" \in s
        might   == \/ "MR_MIGHT_RECLAIM_HP_ON_FAILURE" \in s
                   \/ (~cons /\ ~native)
        reclaim == "MR_RECLAIM_HP_ON_FAILURE" \in s \/ might
    IN  {l \in {343} : "MR_STACK_TRACE" \in s}
        \cup {l \in {351} : hl /\ "MR_LOWLEVEL_DEBUG" \in s}
        \cup {l \in {354} : hl /\ "MR_DEBUG_DD_BACK_END" \in s}
        \cup {l \in {357} : hl /\ "MR_DEBUG_GOTOS" \in s}
        \cup {l \in {360} : hl /\ "MR_DEBUG_LABEL_NAMES" \in s}
        \cup {l \in {363} : hl /\ "MR_LOWLEVEL_ADDR_DEBUG" \in s}
        \cup {l \in {366} : hl /\ "MR_DEBUG_LVAL_REP" \in s}
        \cup {l \in {444} : hl /\ "MR_DEEP_PROFILING" \in s}
        \cup {l \in {447} : hl /\ "MR_RECORD_TERM_SIZES" \in s}
        \cup {l \in {491} : ts /\ "MR_TRACE_HISTOGRAM" \in s}
        \cup {l \in {495} : ts /\ "MR_TYPE_CTOR_STATS" \in s}
        \cup {l \in {499} : ts /\ "MR_TABLE_STATISTICS" \in s}
        \cup {l \in {503} : ts /\ "MR_STACK_FRAME_STATS" \in s}
        \cup {l \in {515} : /\ "MR_USE_MINIMAL_MODEL_STACK_COPY" \in s
                            /\ "MR_CONSERVATIVE_GC" \notin s}
        \cup {l \in {519} : /\ "MR_USE_MINIMAL_MODEL_OWN_STACKS" \in s
                            /\ "MR_CONSERVATIVE_GC" \notin s}
        \cup {l \in {682} : reclaim /\ ~might}
        \cup {l \in {689} : reclaim /\ cons}
        \cup {l \in {697} : reclaim /\ native}
        \cup {l \in {707} : "MR_STATIC_CODE_ADDRESSES" \in s}
        \cup {l \in {749} : "MR_INSERT_LABELS" \in s}
        \cup {l \in {766} : "MR_INSERT_ENTRY_LABEL_NAMES" \in s}
        \cup {l \in {782} : "MR_INSERT_INTERNAL_LABEL_NAMES" \in s}
        \cup {l \in {826} : "MR_NEED_INITIALIZATION_AT_START" \in s}
        \cup {l \in {843} : "MR_MAY_NEED_INITIALIZATION" \in s}

\* The least element of a non-empty set of numbers.
Min(S) == CHOOSE m \in S : \A n \in S : m <= n

\* The macros the header can define, each with the line of its #define.
DefinedAt ==
    { <<"MR_STACK_TRACE", 346>>, <<"MR_DEBUG_AGC_SCHEDULING", 371>>,
      <<"MR_DEBUG_AGC_COLLECTION", 372>>, <<"MR_DEBUG_AGC_FORWARDING", 373>>,
      <<"MR_DEBUG_AGC_SAVED_HPS", 374>>, <<"MR_DEBUG_AGC_PRINT_VARS", 375>>,
      <<"MR_DEBUG_AGC_SMALL_HEAP", 376>>,
      <<"MR_EXEC_TRACE_INFO_IN_CONTEXT", 530>>, <<"MR_TABLE_STATISTICS", 534>>,
      <<"MR_BOXED_FLOAT", 549>>, <<"MR_PIC", 557>>, <<"MR_PIC_REG", 575>>,
      <<"MR_DEBUG_GOTOS", 583>>, <<"MR_CHECK_FOR_OVERFLOW", 584>>,
      <<"MR_DEEP_PROFILING_PORT_COUNTS", 603>>,
      <<"MR_DEEP_PROFILING_TIMING", 605>>,
      <<"MR_DEEP_PROFILING_CALL_SEQ", 606>>,
      <<"MR_DEEP_PROFILING_MEMORY", 607>>, <<"MR_CHECK_DU_EQ", 617>>,
      <<"MR_CONSERVATIVE_GC", 642>>, <<"MR_BOEHM_GC", 645>>,
      <<"MR_MIGHT_RECLAIM_HP_ON_FAILURE", 658>>,
      <<"MR_RECLAIM_HP_ON_FAILURE", 676>>,
      <<"MR_STATIC_CODE_ADDRESSES", 710>>, <<"MR_LL_PARALLEL_CONJ", 718>>,
      <<"MR_DEBUG_LABEL_NAMES", 731>>, <<"MR_INSERT_LABELS", 754>>,
      <<"MR_INSERT_ENTRY_LABEL_NAMES", 770>>,
      <<"MR_INSERT_INTERNAL_LABEL_NAMES", 786>>,
      <<"MR_NEED_ENTRY_LABEL_ARRAY", 808>>,
      <<"MR_NEED_ENTRY_LABEL_INFO", 812>>,
      <<"MR_NEED_INITIALIZATION_AT_START", 830>>,
      <<"MR_MAY_NEED_INITIALIZATION", 846>> }

\* The macros the header can undefine, each with the line of its #undef.
UndefinedAt ==
    { <<"MR_PIC_REG", 578>>, <<"MR_DEEP_PROFILING_PORT_COUNTS", 610>>,
      <<"MR_DEEP_PROFILING_TIMING", 611>>,
      <<"MR_DEEP_PROFILING_CALL_SEQ", 612>>,
      <<"MR_DEEP_PROFILING_MEMORY", 613>> }

\* C9: whenever the macros given violate more than one #error condition, the
\* pass fails with the one error of the violated condition that comes first
\* in the file, and no directive after that #error has been applied: no
\* #define or #undef of a later line has changed the macro table.
C9_FailFast ==
    ( Finished /\ Cardinality(Violations(initial \cup platform)) > 1 )
    => /\ pc = "failed"
       /\ err.line = Min(Violations(initial \cup platform))
       /\ \A e \in DefinedAt :
             e[2] > err.line => (e[1] \in defs => e[1] \in initial)
       /\ \A f \in initial \cup platform :
             f \in defs \/ \E e \in UndefinedAt : e[1] = f /\ e[2] < err.line

\* The pass stopped at the MR_HIGHLEVEL_CODE / MR_LOWLEVEL_DEBUG #error
\* although MR_HIGHLEVEL_CODE and MR_DEEP_PROFILING conflict as well.
C9_Witness ==
    /\ pc = "failed"
    /\ initial = {"MR_HIGHLEVEL_CODE", "MR_LOWLEVEL_DEBUG", "MR_DEEP_PROFILING"}
    /\ err.names = {"MR_HIGHLEVEL_CODE", "MR_LOWLEVEL_DEBUG"}
    /\ "MR_STACK_TRACE" \in defs
    /\ "MR_DEBUG_GOTOS" \notin defs

\* The reserved macros, each with the line of its #error.
ReservationLine ==
    { <<"MR_STACK_TRACE", 343>>, <<"MR_STATIC_CODE_ADDRESSES", 707>>,
      <<"MR_INSERT_LABELS", 749>>, <<"MR_INSERT_ENTRY_LABEL_NAMES", 766>>,
      <<"MR_INSERT_INTERNAL_LABEL_NAMES", 782>>,
      <<"MR_NEED_INITIALIZATION_AT_START", 826>>,
      <<"MR_MAY_NEED_INITIALIZATION", 843>> }

\* C10: for each reserved macro R, a command line that gives R makes the pass
\* fail, at R's own #error or at an earlier one; at R's own #error the error
\* is ReservedFlagSetExternally naming R; and when the command line does not
\* give R, R's #error is never reached, whether the header derives R or not.
C10_Reservation ==
    Finished =>
        \A r \in ReservationLine :
            /\ r[1] \in initial
               => /\ pc = "failed"
                  /\ err.line <= r[2]
                  /\ err.line = r[2]
                     => /\ err.kind = "ReservedFlagSetExternally"
                        /\ err.names = {r[1]}
            /\ r[1] \notin initial => err.line # r[2]

\* The pass stopped at the reservation check of MR_INSERT_LABELS, given on
\* the command line, after deriving MR_STACK_TRACE and
\* MR_STATIC_CODE_ADDRESSES without tripping their checks.
C10_Witness ==
    /\ pc = "failed"
    /\ "MR_INSERT_LABELS" \in initial
    /\ err = [line |-> 749, kind |-> "ReservedFlagSetExternally",
              names |-> {"MR_INSERT_LABELS"}]
    /\ {"MR_STACK_TRACE", "MR_STATIC_CODE_ADDRESSES"} \subseteq defs \ initial

\* The #error directives, other than the reservation checks, whose condition
\* holds in the macro table d as it stands, by source line.
ConflictsIn(d) ==
    LET hl == "MR_HIGHLEVEL_CODE" \in d
        ts == "MR_THREAD_SAFE" \in d
        rc == "MR_RECLAIM_HP_ON_FAILURE" \in d
    IN  {l \in {351} : hl /\ "MR_LOWLEVEL_DEBUG" \in d}
        \cup {l \in {354} : hl /\ "MR_DEBUG_DD_BACK_END" \in d}
        \cup {l \in {357} : hl /\ "MR_DEBUG_GOTOS" \in d}
        \cup {l \in {360} : hl /\ "MR_DEBUG_LABEL_NAMES" \in d}
        \cup {l \in {363} : hl /\ "MR_LOWLEVEL_ADDR_DEBUG" \in d}
        \cup {l \in {366} : hl /\ "MR_DEBUG_LVAL_REP" \in d}
        \cup {l \in {444} : hl /\ "MR_DEEP_PROFILING" \in d}
        \cup {l \in {447} : hl /\ "MR_RECORD_TERM_SIZES" \in d}
        \cup {l \in {491} : ts /\ "MR_TRACE_HISTOGRAM" \in d}
        \cup {l \in {495} : ts /\ "MR_TYPE_CTOR_STATS" \in d}
        \cup {l \in {499} : ts /\ "MR_TABLE_STATISTICS" \in d}
        \cup {l \in {503} : ts /\ "MR_STACK_FRAME_STATS" \in d}
        \cup {l \in {515} : /\ "MR_USE_MINIMAL_MODEL_STACK_COPY" \in d
                            /\ "MR_CONSERVATIVE_GC" \notin d}
        \cup {l \in {519} : /\ "MR_USE_MINIMAL_MODEL_OWN_STACKS" \in d
                            /\ "MR_CONSERVATIVE_GC" \notin d}
        \cup {l \in {682} : rc /\ "MR_MIGHT_RECLAIM_HP_ON_FAILURE" \notin d}
        \cup {l \in {689} : rc /\ "MR_CONSERVATIVE_GC" \in d}
        \cup {l \in {697} : rc /\ "MR_NATIVE_GC" \in d}

\* C11: whenever the pass completes, no #error condition of a conflict holds
\* in the resulting macro table; in particular the result has neither
\* MR_THREAD_SAFE with MR_TABLE_STATISTICS nor MR_HIGHLEVEL_CODE with
\* MR_DEBUG_LABEL_NAMES or MR_DEBUG_GOTOS.
C11_SelfConsistent ==
    pc = "done" =>
        /\ ConflictsIn(defs) = {}
        /\ ~ {"MR_THREAD_SAFE", "MR_TABLE_STATISTICS"} \subseteq defs
        /\ ~ {"MR_HIGHLEVEL_CODE", "MR_DEBUG_LABEL_NAMES"} \subseteq defs
        /\ ~ {"MR_HIGHLEVEL_CODE", "MR_DEBUG_GOTOS"} \subseteq defs

\* C12 (as stated): MR_PIC_REG is the only macro the pass can undefine: in
\* every step, every other macro that is defined stays defined.
C12_OnlyPicRegCleared ==
    [][\A f \in defs : f # "MR_PIC_REG" => f \in defs']_vars

\* C12 (amended): MR_PIC_REG and the four deep profiling measurements are
\* the only macros the pass can undefine: in every step, every other macro
\* that is defined stays defined; MR_PIC_REG is undefined only on a
\* __CYGWIN__ or _WIN32 target and a measurement only when MR_DEEP_PROFILING
\* is not defined.
C12_OnlyUndefsClear ==
    [][\A f \in defs :
          f \notin defs' =>
             \/ /\ f = "MR_PIC_REG"
                /\ "__CYGWIN__" \in platform \/ "_WIN32" \in platform
             \/ /\ f \in DeepProfilingMeasurements
                /\ "MR_DEEP_PROFILING" \notin defs ]_vars

\* A completed pass that undefined MR_PIC_REG and a deep profiling
\* measurement, both given on the command line.
C12_Witness ==
    /\ pc = "done"
    /\ {"MR_PIC_REG", "MR_DEEP_PROFILING_TIMING"} \subseteq initial \ defs
    /\ initial \ {"MR_PIC_REG", "MR_DEEP_PROFILING_TIMING"} \subseteq defs

\* C13: whenever the pass completes, in the result MR_INSERT_LABELS is
\* defined iff one of MR_STACK_TRACE, MR_NATIVE_GC, MR_DEBUG_GOTOS,
\* MR_BYTECODE_CALLABLE, MR_DEBUG_LABEL_NAMES is; MR_NEED_INITIALIZATION_AT_START
\* is defined iff MR_STATIC_CODE_ADDRESSES is undefined or one of
\* MR_MPROF_PROFILE_CALLS, MR_MPROF_PROFILE_TIME, MR_DEBUG_LABEL_NAMES is
\* defined; and MR_MAY_NEED_INITIALIZATION is defined iff
\* MR_NEED_INITIALIZATION_AT_START or MR_INSERT_LABELS is; so that
\* MR_EXEC_TRACE alone, or MR_LOWLEVEL_DEBUG alone, gives
\* MR_MAY_NEED_INITIALIZATION.
C13_LateFlags ==
    pc = "done" =>
        /\ "MR_INSERT_LABELS" \in defs
              <=> {"MR_STACK_TRACE", "MR_NATIVE_GC", "MR_DEBUG_GOTOS",
                   "MR_BYTECODE_CALLABLE", "MR_DEBUG_LABEL_NAMES"} \cap defs # {}
        /\ "MR_NEED_INITIALIZATION_AT_START" \in defs
              <=> \/ "MR_STATIC_CODE_ADDRESSES" \notin defs
                  \/ {"MR_MPROF_PROFILE_CALLS", "MR_MPROF_PROFILE_TIME",
                      "MR_DEBUG_LABEL_NAMES"} \cap defs # {}
        /\ "MR_MAY_NEED_INITIALIZATION" \in defs
              <=> \/ "MR_NEED_INITIALIZATION_AT_START" \in defs
                  \/ "MR_INSERT_LABELS" \in defs
        /\ initial \in {{"MR_EXEC_TRACE"}, {"MR_LOWLEVEL_DEBUG"}}
              => "MR_MAY_NEED_INITIALIZATION" \in defs

\* A completed pass for MR_LOWLEVEL_DEBUG alone: MR_INSERT_LABELS follows from
\* the derived MR_DEBUG_GOTOS, and MR_MAY_NEED_INITIALIZATION from it, without
\* MR_NEED_INITIALIZATION_AT_START.
C13_Witness ==
    /\ pc = "done"
    /\ initial = {"MR_LOWLEVEL_DEBUG"}
    /\ {"MR_INSERT_LABELS", "MR_MAY_NEED_INITIALIZATION"} \subseteq defs
    /\ "MR_NEED_INITIALIZATION_AT_START" \notin defs

\* C14 (as stated): whenever the pass completes, MR_CHECK_DU_EQ is defined in
\* the result if MR_DISABLE_CHECK_DU_EQ is not on the command line, and is
\* not defined in the result if it is.
C14_CheckByDefault ==
    pc = "done" =>
        "MR_CHECK_DU_EQ" \in defs <=> "MR_DISABLE_CHECK_DU_EQ" \notin initial

\* C14 (amended): whenever the pass completes, MR_CHECK_DU_EQ is defined in
\* the result if MR_DISABLE_CHECK_DU_EQ is not on the command line; if it is,
\* MR_CHECK_DU_EQ is defined in the result exactly when the command line gave
\* MR_CHECK_DU_EQ itself.
C14_DefaultPrevented ==
    pc = "done" =>
        IF "MR_DISABLE_CHECK_DU_EQ" \notin initial
        THEN "MR_CHECK_DU_EQ" \in defs
        ELSE "MR_CHECK_DU_EQ" \in defs <=> "MR_CHECK_DU_EQ" \in initial

\* A completed pass in which MR_DISABLE_CHECK_DU_EQ kept MR_CHECK_DU_EQ from
\* being defined.
C14_Witness ==
    /\ pc = "done"
    /\ "MR_DISABLE_CHECK_DU_EQ" \in initial
    /\ "MR_CHECK_DU_EQ" \notin defs

\* The first source line of each conditional group, in the order of Groups.
GroupFirstLine ==
    << 342, 349, 370, 438, 490, 514, 529, 533, 548, 556, 574, 582, 601, 616,
       640, 657, 675, 680, 706, 717, 729, 748, 765, 781, 806, 825, 842 >>

\* The tests of the header other than the reservation checks: each macro a
\* condition names, with the line of that condition.
TestedAt ==
    { <<"MR_EXEC_TRACE", 345>>, <<"MR_DEEP_PROFILING", 345>>,
      <<"MR_HIGHLEVEL_CODE", 349>>, <<"MR_LOWLEVEL_DEBUG", 350>>,
      <<"MR_DEBUG_DD_BACK_END", 353>>, <<"MR_DEBUG_GOTOS", 356>>,
      <<"MR_DEBUG_LABEL_NAMES", 359>>, <<"MR_LOWLEVEL_ADDR_DEBUG", 362>>,
      <<"MR_DEBUG_LVAL_REP", 365>>, <<"MR_DEBUG_AGC_ALL", 370>>,
      <<"MR_HIGHLEVEL_CODE", 438>>, <<"MR_DEEP_PROFILING", 443>>,
      <<"MR_RECORD_TERM_SIZES", 446>>,
      <<"MR_THREAD_SAFE", 490>>, <<"MR_TRACE_HISTOGRAM", 490>>,
      <<"MR_THREAD_SAFE", 494>>, <<"MR_TYPE_CTOR_STATS", 494>>,
      <<"MR_THREAD_SAFE", 498>>, <<"MR_TABLE_STATISTICS", 498>>,
      <<"MR_THREAD_SAFE", 502>>, <<"MR_STACK_FRAME_STATS", 502>>,
      <<"MR_USE_MINIMAL_MODEL_STACK_COPY", 514>>, <<"MR_CONSERVATIVE_GC", 514>>,
      <<"MR_USE_MINIMAL_MODEL_OWN_STACKS", 518>>, <<"MR_CONSERVATIVE_GC", 518>>,
      <<"MR_USE_MINIMAL_MODEL_OWN_STACKS", 529>>,
      <<"MR_MINIMAL_MODEL_DEBUG", 533>>, <<"MR_HIGHLEVEL_CODE", 548>>,
      <<"__pic__", 556>>, <<"__PIC__", 556>>, <<"MR_PIC", 574>>,
      <<"__CYGWIN__", 577>>, <<"_WIN32", 577>>,
      <<"MR_LOWLEVEL_DEBUG", 582>>, <<"MR_DEEP_PROFILING", 601>>,
      <<"MR_DEEP_PROFILING_PERF_TEST", 604>>,
      <<"MR_DISABLE_CHECK_DU_EQ", 616>>,
      <<"MR_BOEHM_GC", 640>>, <<"MR_MPS_GC", 640>>,
      <<"MR_CONSERVATIVE_GC", 641>>, <<"MR_CONSERVATIVE_GC", 644>>,
      <<"MR_CONSERVATIVE_GC", 657>>, <<"MR_NATIVE_GC", 657>>,
      <<"MR_MIGHT_RECLAIM_HP_ON_FAILURE", 675>>,
      <<"MR_RECLAIM_HP_ON_FAILURE", 680>>,
      <<"MR_MIGHT_RECLAIM_HP_ON_FAILURE", 681>>,
      <<"MR_CONSERVATIVE_GC", 684>>, <<"MR_NATIVE_GC", 691>>,
      <<"MR_USE_GCC_NONLOCAL_GOTOS", 709>>, <<"MR_USE_ASM_LABELS", 709>>,
      <<"MR_HIGHLEVEL_CODE", 717>>, <<"MR_THREAD_SAFE", 717>>,
      <<"MR_DEEP_PROFILING_LOWLEVEL_DEBUG", 729>>, <<"MR_TABLE_DEBUG", 729>>,
      <<"MR_DEBUG_RETRY", 730>>,
      <<"MR_STACK_TRACE", 751>>, <<"MR_NATIVE_GC", 751>>,
      <<"MR_DEBUG_GOTOS", 752>>, <<"MR_BYTECODE_CALLABLE", 752>>,
      <<"MR_DEBUG_LABEL_NAMES", 753>>,
      <<"MR_MPROF_PROFILE_CALLS", 768>>, <<"MR_DEBUG_GOTOS", 768>>,
      <<"MR_DEBUG_AGC_SCHEDULING", 769>>, <<"MR_DEBUG_LABEL_NAMES", 769>>,
      <<"MR_DEBUG_GOTOS", 784>>, <<"MR_DEBUG_AGC_SCHEDULING", 784>>,
      <<"MR_DEBUG_LABEL_NAMES", 785>>,
      <<"MR_NATIVE_GC", 806>>, <<"MR_DEBUG_GOTOS", 806>>,
      <<"MR_INSERT_ENTRY_LABEL_NAMES", 807>>,
      <<"MR_NEED_ENTRY_LABEL_ARRAY", 811>>, <<"MR_MPROF_PROFILE_CALLS", 811>>,
      <<"MR_STATIC_CODE_ADDRESSES", 828>>, <<"MR_MPROF_PROFILE_CALLS", 828>>,
      <<"MR_MPROF_PROFILE_TIME", 829>>, <<"MR_DEBUG_LABEL_NAMES", 829>>,
      <<"MR_NEED_INITIALIZATION_AT_START", 845>>, <<"MR_INSERT_LABELS", 845>> }

\* The macros that a condition of a group before the one at position i names.
TestedBefore(i) == {t[1] : t \in {u \in TestedAt : u[2] < GroupFirstLine[i]}}

\* C15: no group defines or undefines a macro that the condition of an
\* earlier group names (the reservation checks aside); in particular
\* MR_CONSERVATIVE_GC, MR_DEBUG_GOTOS, MR_DEBUG_LABEL_NAMES and
\* MR_TABLE_STATISTICS are not tested before they are defined.
C15_NoTestBeforeDefinition ==
    [][\A f \in (defs' \ defs) \cup (defs \ defs') :
          f \notin TestedBefore(GroupIndex(pc))]_vars

\* C16: whenever the pass completes, in the result MR_RECLAIM_HP_ON_FAILURE is
\* defined iff MR_MIGHT_RECLAIM_HP_ON_FAILURE is defined iff neither
\* MR_CONSERVATIVE_GC nor MR_NATIVE_GC is defined, whatever the command line
\* gave for the first two.
C16_ReclaimEquivalence ==
    pc = "done" =>
        LET reclaim == "MR_RECLAIM_HP_ON_FAILURE" \in defs
            might   == "MR_MIGHT_RECLAIM_HP_ON_FAILURE" \in defs
            nogc    == /\ "MR_CONSERVATIVE_GC" \notin defs
                       /\ "MR_NATIVE_GC" \notin defs
        IN  /\ reclaim <=> might
            /\ might <=> nogc

\* A completed pass whose command line gave MR_RECLAIM_HP_ON_FAILURE alone:
\* the capability macro was derived and no collector is defined.
C16_Witness ==
    /\ pc = "done"
    /\ "MR_RECLAIM_HP_ON_FAILURE" \in initial
    /\ "MR_MIGHT_RECLAIM_HP_ON_FAILURE" \in defs \ initial
    /\ "MR_CONSERVATIVE_GC" \notin defs
    /\ "MR_NATIVE_GC" \notin defs

\* C17: a command line with a minimal-model variant and a collector
\* (MR_BOEHM_GC or MR_MPS_GC) is not rejected for a missing prerequisite;
\* the pass fails with MissingPrerequisite only when none of
\* MR_CONSERVATIVE_GC, MR_BOEHM_GC, MR_MPS_GC is on the command line.
C17_PrerequisiteResolved ==
    ( Finished /\ err.kind = "MissingPrerequisite" )
    => {"MR_CONSERVATIVE_GC", "MR_BOEHM_GC", "MR_MPS_GC"} \cap initial = {}

====
